---- MODULE Spec2Model ----
(***************************************************************************)
(* Health Buddy backend: the session store (sessionManager.js), the four   *)
(* reasoning stages with their output coercion (aiService.js) and the      *)
(* route handlers that compose them (server file, src/unnamed/part_000).   *)
(*                                                                         *)
(* Node runs every handler to its next await without interruption, so one  *)
(* action is one such run-to-await segment.  The reasoning capability      *)
(* (the OpenAI client) is the environment: each invocation either throws   *)
(* or replies with a text chosen from a small set.                         *)
(*                                                                         *)
(* Time is counted in minutes and read at the resolution of the sweep      *)
(* timer (5 minutes).  A JS string is a sequence of characters, where a    *)
(* run of characters the code never looks into (a word, a whole JSON       *)
(* document, the three backticks of a fence) is one element.               *)
(***************************************************************************)
EXTENDS Integers, Sequences, FiniteSets, TLC

-----------------------------------------------------------------------------
(* Bounds of the model *)

\* Spec: sessions created, chat requests that reach the Respond stage and
\* capability invocations that come back faulty, counted together
MaxEvents == 3
\* SpecLong: chat requests that reach the Respond stage
LongAsks == 6
\* SpecTimed: the clock stops after this many periods of the sweep's timer
TimedSweeps == 7
FairSweeps == 9
\* the longest body of a reply in the coercion environment, in tokens
MaxBody == 3

-----------------------------------------------------------------------------
(* Program constants *)

\* sessionManager.js:6, in minutes
SESSION_TIMEOUT == 30
\* sessionManager.js:17, in minutes
SWEEP_INTERVAL == 5
\* sessionManager.js:78-79
HISTORY_LIMIT == 10
\* the X-Session-ID header is missing or empty (falsy)
NoSessionId == 0

-----------------------------------------------------------------------------
(* JS strings and values *)

\* the value of a property that is not there
UNDEFINED == <<"undefined">>

Whitespace == {" ", "\n"}

\* the three backticks of a markdown code fence
Fence == "<3 backticks>"

Digits == <<"1", "2", "3", "4", "5", "6", "7", "8", "9">>

\* String.prototype.startsWith / endsWith
startsWith(s, p) == Len(s) >= Len(p) /\ SubSeq(s, 1, Len(p)) = p

endsWith(s, p) == Len(s) >= Len(p) /\ SubSeq(s, Len(s) - Len(p) + 1, Len(s)) = p

RECURSIVE trimStart(_)
trimStart(s) ==
  IF s # <<>> /\ Head(s) \in Whitespace THEN trimStart(Tail(s)) ELSE s

RECURSIVE trimEnd(_)
trimEnd(s) ==
  IF s # <<>> /\ s[Len(s)] \in Whitespace
  THEN trimEnd(SubSeq(s, 1, Len(s) - 1))
  ELSE s

\* String.prototype.trim
trim(s) == trimEnd(trimStart(s))

\* JS truthiness of a string-or-undefined value
truthy(v) == v # UNDEFINED /\ v # <<>>

\* replace without the g flag: the first match is removed and no other
replaceFenceOnce(s, open) ==
  IF startsWith(s, open) THEN SubSeq(s, Len(open) + 1, Len(s))
  ELSE IF endsWith(s, <<"\n", Fence>>) THEN SubSeq(s, 1, Len(s) - 2)
  ELSE s

\* content.replace(/^OPEN|\nFENCE$/g, ''): the opening marker is removed
\* only at the very start, the closing newline and fence only at the very end
replaceFence(s, open) ==
  LET a == IF startsWith(s, open) THEN SubSeq(s, Len(open) + 1, Len(s)) ELSE s
  IN  IF endsWith(a, <<"\n", Fence>>) THEN SubSeq(a, 1, Len(a) - 2) ELSE a

\* "Remove markdown code block markers if present", the same five lines in
\* each of the four stages
stripFence(content) ==
  IF startsWith(content, <<Fence, "json">>)
  THEN trim(replaceFence(content, <<Fence, "json", "\n">>))
  ELSE IF startsWith(content, <<Fence>>)
       THEN trim(replaceFence(content, <<Fence, "\n">>))
       ELSE content

\* a decoded JSON object, with the properties the code reads
JsonObject(doc) ==
  [type |-> "object", doc |-> doc,
   isError |-> FALSE, error |-> UNDEFINED,
   productName |-> UNDEFINED, ingredients |-> "undefined",
   answer |-> UNDEFINED, suggestedQuestions |-> "undefined"]

JsonNull == [type |-> "null"]

\* the JSON documents a reply can hold, each one element of a string
JsonDocuments ==
  {"{analysis}", "{analysis,ingredients:{}}", "{isError,error}", "{isError}",
   "{error}", "{webInfo}", "{formatted}", "{answer}", "{}", "null"}

\* what each document decodes to
JsonValue(doc) ==
  CASE doc = "{analysis}" ->
         [JsonObject(doc) EXCEPT !.productName = <<"Oat Crisp">>,
                                 !.ingredients = "array"]
    [] doc = "{analysis,ingredients:{}}" ->
         [JsonObject(doc) EXCEPT !.productName = <<"Oat Crisp">>,
                                 !.ingredients = "object"]
    [] doc = "{isError,error}" ->
         [JsonObject(doc) EXCEPT !.isError = TRUE,
                                 !.error = <<"Unable to process the image.">>]
    [] doc = "{isError}" -> [JsonObject(doc) EXCEPT !.isError = TRUE]
    [] doc = "{error}" ->
         [JsonObject(doc) EXCEPT !.error = <<"Unable to process the image.">>]
    [] doc = "{answer}" ->
         [JsonObject(doc) EXCEPT !.answer = <<"Yes, it is vegan.">>,
                                 !.suggestedQuestions = "array"]
    [] doc = "null" -> JsonNull
    [] OTHER -> JsonObject(doc)

\* JSON.parse: surrounding whitespace is allowed, anything else but one
\* document throws
JSONparse(content) ==
  LET t == trim(content)
  IN  IF Len(t) = 1 /\ t[1] \in JsonDocuments
      THEN [ok |-> TRUE, value |-> JsonValue(t[1])]
      ELSE [ok |-> FALSE, value |-> JsonNull]

\* a reply wrapped by the model in a json code fence
Fenced(body) == <<Fence, "json", "\n">> \o body \o <<"\n", Fence>>

-----------------------------------------------------------------------------
(* The capability: what one invocation can come back with *)

Throw == [throws |-> TRUE, content |-> <<>>]

Reply(text) == [throws |-> FALSE, content |-> text]

PlainText == <<"It", " ", "depends.">>

\* the replies that hold the document the stage asked for
NominalReplies(doc) == {Reply(<<doc>>), Reply(Fenced(<<doc>>))}

ExtractReplies ==
  NominalReplies("{analysis}") \cup
  {Throw, Reply(<<"{analysis,ingredients:{}}">>), Reply(<<"{isError,error}">>),
   Reply(<<"{isError}">>), Reply(<<"{error}">>), Reply(<<"null">>),
   Reply(PlainText)}

EnrichReplies ==
  NominalReplies("{webInfo}") \cup {Throw, Reply(<<"null">>), Reply(PlainText)}

SummarizeReplies ==
  NominalReplies("{formatted}") \cup {Throw, Reply(<<"null">>), Reply(PlainText)}

RespondReplies ==
  NominalReplies("{answer}") \cup
  {Throw, Reply(<<"{}">>), Reply(<<"null">>), Reply(PlainText), Reply(<<>>),
   Reply(Fenced(PlainText))}

\* 1 for a reply that does not hold the document the stage asked for
FaultsOf(reply, doc) == IF reply \in NominalReplies(doc) THEN 0 ELSE 1

-----------------------------------------------------------------------------
(* aiService.js: the four stages, as functions of the capability's reply *)

Unset == [type |-> "unset"]

\* analyzeImage without the test of isError and error
analyzeImageNoSentinel(reply) ==
  LET parsed == JSONparse(stripFence(reply.content))
  IN  IF reply.throws \/ ~parsed.ok \/ parsed.value = JsonNull
      THEN [success |-> FALSE, analysis |-> Unset,
            error |-> <<"Failed to analyze image">>]
      ELSE [success |-> TRUE, analysis |-> parsed.value, error |-> UNDEFINED]

\* analyzeImage, from the reply on
analyzeImage(reply) ==
  LET failed == [success |-> FALSE, analysis |-> Unset,
                 error |-> <<"Failed to analyze image">>]
      parsed == JSONparse(stripFence(reply.content))
      analysis == parsed.value
  IN  IF reply.throws \/ ~parsed.ok THEN failed
      ELSE IF analysis = JsonNull THEN failed
      ELSE IF analysis.isError \/ truthy(analysis.error)
           THEN [success |-> FALSE, analysis |-> Unset,
                 error |-> IF truthy(analysis.error) THEN analysis.error
                           ELSE <<"Failed to analyze the food label">>]
           ELSE [success |-> TRUE, analysis |-> analysis, error |-> UNDEFINED]

\* the degraded value searchProductInfo returns with success: false
ServiceDegradedWebInfo ==
  [ingredientInfo |-> <<>>,
   nutritionalContext |-> "Additional information unavailable",
   recommendations |-> "Consult with a healthcare provider for personalized advice",
   comparisons |-> <<>>]

\* searchProductInfo builds its prompt with ingredients.slice(0, 10).join(', '),
\* which throws, before the capability is invoked, unless ingredients is an array
searchProductInfoInvokes(ingredients) == ingredients = "array"

\* searchProductInfo without its catch: whatever came back is the enrichment
searchProductInfoLenient(reply) ==
  [success |-> TRUE, webInfo |-> JSONparse(stripFence(reply.content)).value]

\* searchProductInfo, from the reply on
searchProductInfo(reply) ==
  LET parsed == JSONparse(stripFence(reply.content))
  IN  IF reply.throws \/ ~parsed.ok
      THEN [success |-> FALSE, webInfo |-> ServiceDegradedWebInfo]
      ELSE [success |-> TRUE, webInfo |-> parsed.value]

\* a || b on a string-or-undefined value
orElse(v, default) == IF truthy(v) THEN v ELSE default

\* the "Fallback to basic formatting" of generateFormattedSummary; reading
\* analysis.ingredients?.slice(0, 5) throws when ingredients has no slice
fallbackThrows(analysis) == analysis.ingredients = "object"

FallbackSummary(analysis) ==
  [formatted |->
     [quickVerdict |-> [recommendation |-> "moderate", title |-> "Review Required"],
      overview |-> [productName |-> orElse(analysis.productName, <<"Unknown Product">>)],
      ingredients |-> [main |-> IF analysis.ingredients = "array"
                                THEN "the first 5 ingredients" ELSE "none"],
      recommendations |-> "Consume in moderation as part of a balanced diet."]]

\* generateFormattedSummary, from the reply on
generateFormattedSummary(analysis, reply) ==
  LET parsed == JSONparse(stripFence(reply.content))
  IN  IF reply.throws \/ ~parsed.ok
      THEN IF fallbackThrows(analysis)
           THEN [threw |-> TRUE, success |-> FALSE, data |-> Unset]
           ELSE [threw |-> FALSE, success |-> TRUE, data |-> FallbackSummary(analysis)]
      ELSE [threw |-> FALSE, success |-> TRUE, data |-> parsed.value]

\* handleFollowUp with a degraded answer where the code fails hard
handleFollowUpSwallow(reply) ==
  LET content == stripFence(reply.content)
      parsed == JSONparse(content)
  IN  IF ~reply.throws /\ parsed.ok
      THEN [success |-> TRUE, response |-> parsed.value]
      ELSE [success |-> TRUE,
            response |-> [JsonObject("plain text") EXCEPT
                            !.answer = <<"Sorry.">>,
                            !.suggestedQuestions = "generic"]]

\* handleFollowUp, from the reply on
handleFollowUp(reply) ==
  LET content == stripFence(reply.content)
      parsed == JSONparse(content)
  IN  IF reply.throws
      THEN [success |-> FALSE, response |-> Unset]
      ELSE IF parsed.ok
           THEN [success |-> TRUE, response |-> parsed.value]
           ELSE [success |-> TRUE,
                 response |-> [JsonObject("plain text") EXCEPT
                                 !.answer = content,
                                 !.suggestedQuestions = "generic"]]

-----------------------------------------------------------------------------
(* sessionManager.js: the store, a Map from session id to session *)

\* Array.prototype.slice(0, n): the first n, where the code keeps the last n
sliceFirst(h, n) == IF Len(h) > n THEN SubSeq(h, 1, n) ELSE h

\* Array.prototype.slice(-n)
sliceLast(h, n) == IF Len(h) > n THEN SubSeq(h, Len(h) - n + 1, Len(h)) ELSE h

\* a validateSession that lets every id through
hasSessionAlways(S, id) == TRUE

hasSession(S, id) == id \in DOMAIN S

\* Map.prototype.set
MapSet(S, id, session) ==
  [k \in DOMAIN S \cup {id} |-> IF k = id THEN session ELSE S[k]]

\* Map.prototype.delete
MapDelete(S, ids) == [k \in DOMAIN S \ ids |-> S[k]]

storeAnalysis(S, id, analysis, webInfo, formattedData, t) ==
  MapSet(S, id, [analysis |-> analysis, webInfo |-> webInfo,
                 formattedData |-> formattedData,
                 conversationHistory |-> <<>>,
                 createdAt |-> t, lastAccessed |-> t])

\* a getAnalysis that hands the analysis out of the store
getAnalysisConsuming(S, id, t) ==
  IF id \notin DOMAIN S
  THEN [found |-> FALSE, store |-> S]
  ELSE [found |-> TRUE,
        store |-> MapSet(S, id, [S[id] EXCEPT !.analysis = Unset,
                                              !.lastAccessed = t])]

\* getAnalysis: whether it returns a session (not null), and the store it leaves
getAnalysis(S, id, t) ==
  IF id \notin DOMAIN S
  THEN [found |-> FALSE, store |-> S]
  ELSE [found |-> TRUE, store |-> MapSet(S, id, [S[id] EXCEPT !.lastAccessed = t])]

\* addToConversationHistory: whether it returns the session (not null)
addToConversationHistoryReturns(S, id) == id \in DOMAIN S

\* addToConversationHistory that starts a session for an id it does not find
addToConversationHistoryUpsert(S, id, role, content, t) ==
  MapSet(S, id,
         [analysis |-> Unset, webInfo |-> Unset, formattedData |-> Unset,
          conversationHistory |->
             Append(IF id \in DOMAIN S THEN S[id].conversationHistory ELSE <<>>,
                    [role |-> role, content |-> content, timestamp |-> t]),
          createdAt |-> IF id \in DOMAIN S THEN S[id].createdAt ELSE t,
          lastAccessed |-> t])

\* addToConversationHistory with unshift, where the code has push
addToConversationHistoryUnshift(S, id, role, content, t) ==
  IF id \notin DOMAIN S THEN S
  ELSE LET unshifted == <<[role |-> role, content |-> content, timestamp |-> t]>>
                          \o S[id].conversationHistory
       IN  MapSet(S, id,
                  [S[id] EXCEPT
                     !.conversationHistory =
                        IF Len(unshifted) > HISTORY_LIMIT
                        THEN sliceLast(unshifted, HISTORY_LIMIT)
                        ELSE unshifted,
                     !.lastAccessed = t])

\* addToConversationHistory without the cap of lines 78-80
addToConversationHistoryUncapped(S, id, role, content, t) ==
  IF id \notin DOMAIN S THEN S
  ELSE MapSet(S, id,
              [S[id] EXCEPT
                 !.conversationHistory =
                    Append(@, [role |-> role, content |-> content, timestamp |-> t]),
                 !.lastAccessed = t])

\* addToConversationHistory: the store it leaves
addToConversationHistory(S, id, role, content, t) ==
  IF id \notin DOMAIN S THEN S
  ELSE LET pushed == Append(S[id].conversationHistory,
                            [role |-> role, content |-> content, timestamp |-> t])
       IN  MapSet(S, id,
                  [S[id] EXCEPT
                     !.conversationHistory =
                        IF Len(pushed) > HISTORY_LIMIT
                        THEN sliceLast(pushed, HISTORY_LIMIT)
                        ELSE pushed,
                     !.lastAccessed = t])

\* expiry fixed from creation, where the code's slides with the last access
expiredSinceCreation(session, t) == t - session.createdAt > SESSION_TIMEOUT

\* expiry one sweep interval late
expiredLate(session, t) ==
  t - session.lastAccessed > SESSION_TIMEOUT + SWEEP_INTERVAL

\* expiry from the time-to-live on, where the code's is past it
expiredAtTimeout(session, t) == t - session.lastAccessed >= SESSION_TIMEOUT

\* the test of the periodic sweep
expired(session, t) == t - session.lastAccessed > SESSION_TIMEOUT

\* the setInterval callback: the store it leaves
sweep(S, t) == MapDelete(S, {id \in DOMAIN S : expired(S[id], t)})

deleteSession(S, id) == MapDelete(S, {id})

getSessionStats(S) ==
  [totalSessions |-> Cardinality(DOMAIN S),
   sessions |-> [id \in DOMAIN S |->
                   [createdAt |-> S[id].createdAt,
                    lastAccessed |-> S[id].lastAccessed,
                    messageCount |-> Len(S[id].conversationHistory)]]]

-----------------------------------------------------------------------------
(* The server *)

VARIABLES
  sessions,   \* sessionManager.js: the Map of sessions
  now,        \* Date.now(), in minutes
  nextSweep,  \* when the sweep's timer is due next
  nextId,     \* the next id uuidv4 hands out; every id is fresh
  run,        \* the POST /api/analyze request in progress
  chat,       \* the POST /api/chat requests in progress
  response,   \* the response the step just taken has sent, if any
  asked,      \* chat requests that have reached the Respond stage
  faults,     \* capability invocations that came back faulty
  limits,     \* what the environment of this behaviour is bounded to
  replyText,  \* aiService.js: response.choices[0].message.content of a reply
  coerced     \* what the stage's clean-up and JSON.parse have made of it

vars ==
  <<sessions, now, nextSweep, nextId, run, chat, response, asked, faults, limits,
    replyText, coerced>>

\* the ids uuidv4 hands out, in this order
SessionIds == {1, 2}

\* what a client can send as a session id: nothing (the header only), or an
\* id that may or may not have been minted and may or may not be stored
SessionIdHeaders == {NoSessionId} \cup SessionIds

\* the chat requests that can be in progress at the same time
ChatRequests == {1, 2}

\* the message of the k-th chat request that is let through: each is its own
Question(k) == <<"Q", Digits[k], "?">>

\* what a client can send as the message of the body
Messages(k) == {UNDEFINED, <<>>, <<" ", "\n", " ">>, Question(k)}

Response(route, status, kind, body, invoked) ==
  [route |-> route, status |-> status, kind |-> kind, body |-> body,
   invoked |-> invoked]

\* the body of a response with success: false
Failure(error) == [error |-> error]

NoResponse == Response("none", 0, "none", Unset, <<>>)

IdleRun ==
  [pc |-> "idle", analysis |-> Unset, webSearchResult |-> Unset, webInfo |-> Unset,
   invoked |-> <<>>]

IdleChat ==
  [pc |-> "idle", sessionId |-> NoSessionId, message |-> UNDEFINED, prompt |-> Unset]

\* no reply is being followed through its coercion
NotCoerced == [ok |-> FALSE, value |-> Unset]

\* the environment stays within its bounds with nextId - 1 sessions created,
\* a chat requests let through and f faulty replies
Allowed(id, a, f) ==
  /\ id - 1 <= limits.sessions
  /\ f <= limits.faults
  /\ (id - 1) + a + f <= limits.events

\* the server after start-up, in an environment with these bounds
ServerStarted(events, nfaults, nsessions, time) ==
  /\ sessions = <<>>
  /\ now = 0
  /\ nextSweep = SWEEP_INTERVAL
  /\ nextId = 1
  /\ run = IdleRun
  /\ chat = [c \in ChatRequests |-> IdleChat]
  /\ response = NoResponse
  /\ asked = 0
  /\ faults = 0
  /\ limits = [events |-> events, faults |-> nfaults, sessions |-> nsessions,
               time |-> time]

InitWith(events, nfaults, nsessions, time) ==
  /\ ServerStarted(events, nfaults, nsessions, time)
  /\ replyText = << >>
  /\ coerced = NotCoerced

-----------------------------------------------------------------------------
(* POST /api/analyze: Extract, Enrich, Summarize, commit *)

\* the fixed value the route puts in place of a failed enrichment
RouteDegradedWebInfo ==
  [ingredientInfo |-> <<>>,
   nutritionalContext |-> "Additional information unavailable",
   recommendations |-> "Consult with a healthcare provider",
   comparisons |-> <<>>]

\* analysis.ingredients || []
ingredientsOrEmpty(analysis) ==
  IF analysis.ingredients = "undefined" THEN "array" ELSE analysis.ingredients

\* the request arrives; the handler runs up to the Extract invocation
AnalyzeStart(file) ==
  /\ run.pc = "idle"
  /\ CASE file = "none" ->
            /\ response' = Response("analyze", 400, "no file",
                             Failure(<<"No file uploaded or unsupported file type">>), <<>>)
            /\ UNCHANGED run
       [] file = "empty" ->
            \* analyzeImage throws on the empty base64 string, inside its try
            /\ response' = Response("analyze", 500, "extraction failed",
                             Failure(<<"Failed to analyze image">>), <<>>)
            /\ UNCHANGED run
       [] OTHER ->
            /\ Allowed(nextId + 1, asked, faults)
            /\ run' = [IdleRun EXCEPT !.pc = "extract", !.invoked = <<"Extract">>]
            /\ response' = NoResponse
  /\ UNCHANGED <<sessions, now, nextSweep, nextId, chat, asked, faults, limits, replyText, coerced>>

\* Extract returns and, when the invocation threw, is invoked once more,
\* where the code makes the failure the run's answer
ExtractReturnRetry(reply) ==
  /\ run.pc = "extract"
  /\ Allowed(nextId, asked, faults + FaultsOf(reply, "{analysis}"))
  /\ LET result == analyzeImage(reply)
     IN  IF reply.throws /\ Len(run.invoked) = 1
         THEN /\ run' = [run EXCEPT !.invoked = Append(@, "Extract")]
              /\ response' = NoResponse
         ELSE IF ~result.success
         THEN /\ run' = IdleRun
              /\ response' = Response("analyze", 500, "extraction failed",
                               Failure(result.error), run.invoked)
         ELSE /\ run' =
                   IF searchProductInfoInvokes(ingredientsOrEmpty(result.analysis))
                   THEN [run EXCEPT !.pc = "enrich", !.analysis = result.analysis,
                           !.invoked = Append(@, "Enrich")]
                   ELSE [run EXCEPT !.pc = "summarize", !.analysis = result.analysis,
                           !.webSearchResult = searchProductInfo(Throw),
                           !.webInfo = RouteDegradedWebInfo,
                           !.invoked = Append(@, "Summarize")]
              /\ response' = NoResponse
  /\ faults' = faults + FaultsOf(reply, "{analysis}")
  /\ UNCHANGED <<sessions, now, nextSweep, nextId, chat, asked, limits, replyText, coerced>>

\* Extract returns; on success the handler runs on to the Enrich invocation,
\* or past it to the Summarize invocation when building Enrich's prompt throws
ExtractReturn(reply) ==
  /\ run.pc = "extract"
  /\ Allowed(nextId, asked, faults + FaultsOf(reply, "{analysis}"))
  /\ LET result == analyzeImage(reply)
     IN  IF ~result.success
         THEN /\ run' = IdleRun
              /\ response' = Response("analyze", 500, "extraction failed",
                               Failure(result.error), run.invoked)
         ELSE /\ run' =
                   IF searchProductInfoInvokes(ingredientsOrEmpty(result.analysis))
                   THEN [run EXCEPT !.pc = "enrich", !.analysis = result.analysis,
                           !.invoked = Append(@, "Enrich")]
                   ELSE [run EXCEPT !.pc = "summarize", !.analysis = result.analysis,
                           !.webSearchResult = searchProductInfo(Throw),
                           !.webInfo = RouteDegradedWebInfo,
                           !.invoked = Append(@, "Summarize")]
              /\ response' = NoResponse
  /\ faults' = faults + FaultsOf(reply, "{analysis}")
  /\ UNCHANGED <<sessions, now, nextSweep, nextId, chat, asked, limits, replyText, coerced>>

\* Enrich returns and the handler stores the session at once, where the code
\* goes on to Summarize first
EnrichReturnCommit(reply) ==
  /\ run.pc = "enrich"
  /\ Allowed(nextId, asked, faults + FaultsOf(reply, "{webInfo}"))
  /\ LET webSearchResult == searchProductInfo(reply)
         webInfo == IF webSearchResult.success THEN webSearchResult.webInfo
                    ELSE RouteDegradedWebInfo
     IN  /\ sessions' = storeAnalysis(sessions, nextId, run.analysis, webInfo,
                                       Unset, now)
         /\ response' = Response("analyze", 200, "ok",
                           [sessionId |-> nextId, data |-> Unset], run.invoked)
  /\ nextId' = nextId + 1
  /\ run' = IdleRun
  /\ faults' = faults + FaultsOf(reply, "{webInfo}")
  /\ UNCHANGED <<now, nextSweep, chat, asked, limits, replyText, coerced>>

\* Enrich returns; the handler runs on to the Summarize invocation
EnrichReturn(reply) ==
  /\ run.pc = "enrich"
  /\ Allowed(nextId, asked, faults + FaultsOf(reply, "{webInfo}"))
  /\ LET webSearchResult == searchProductInfo(reply)
     IN  run' = [run EXCEPT !.pc = "summarize",
                   !.webSearchResult = webSearchResult,
                   !.webInfo = IF webSearchResult.success THEN webSearchResult.webInfo
                               ELSE RouteDegradedWebInfo,
                   !.invoked = Append(@, "Summarize")]
  /\ response' = NoResponse
  /\ faults' = faults + FaultsOf(reply, "{webInfo}")
  /\ UNCHANGED <<sessions, now, nextSweep, nextId, chat, asked, limits, replyText, coerced>>

\* Summarize returns; the handler mints the id, stores the session and answers
SummarizeReturn(reply) ==
  /\ run.pc = "summarize"
  /\ Allowed(nextId, asked, faults + FaultsOf(reply, "{formatted}"))
  /\ LET result == generateFormattedSummary(run.analysis, reply)
     IN  IF result.threw
         THEN \* the throw leaves generateFormattedSummary; the route's catch replies
              /\ response' = Response("analyze", 500, "handler error",
                               Failure(<<"Failed to process image">>), run.invoked)
              /\ UNCHANGED <<sessions, nextId>>
         ELSE /\ sessions' = storeAnalysis(sessions, nextId, run.analysis,
                                           run.webInfo, result.data, now)
              /\ nextId' = nextId + 1
              /\ response' = Response("analyze", 200, "ok",
                               [sessionId |-> nextId, data |-> result.data],
                               run.invoked)
  /\ run' = IdleRun
  /\ faults' = faults + FaultsOf(reply, "{formatted}")
  /\ UNCHANGED <<now, nextSweep, chat, asked, limits, replyText, coerced>>

-----------------------------------------------------------------------------
(* POST /api/chat: validateSession, the handler, Respond *)

\* the message test without the trim
messageRejectedUntrimmed(message) == message = UNDEFINED \/ Len(message) = 0

\* !message || typeof message !== 'string' || message.trim().length === 0
messageRejected(message) == message = UNDEFINED \/ Len(trim(message)) = 0

\* sessionData.webInfo || {}
webInfoOrEmpty(webInfo) == IF webInfo = JsonNull THEN JsonObject("{}") ELSE webInfo

\* the request arrives, as c, the first of the chat requests not in progress;
\* validateSession and the handler run up to the Respond invocation
ChatStart(c, sessionId, message) ==
  /\ chat[c].pc = "idle"
  /\ \A d \in ChatRequests : d < c => chat[d].pc # "idle"
  /\ LET got == getAnalysis(sessions, sessionId, now)
         appended == addToConversationHistory(got.store, sessionId, "user", message, now)
     IN  IF sessionId = NoSessionId
         THEN /\ response' = Response("chat", 400, "session id required",
                               Failure(<<"Session ID is required in X-Session-ID header">>),
                               <<>>)
              /\ UNCHANGED <<sessions, chat, asked>>
         ELSE IF ~hasSession(sessions, sessionId)
         THEN /\ response' = Response("chat", 404, "session not found",
                               Failure(<<"Session not found or expired.", " ",
                                         "Please scan the product again.">>),
                               <<>>)
              /\ UNCHANGED <<sessions, chat, asked>>
         ELSE IF messageRejected(message)
         THEN /\ response' = Response("chat", 400, "message required",
                               Failure(<<"Message is required and must be a non-empty string">>),
                               <<>>)
              /\ UNCHANGED <<sessions, chat, asked>>
         ELSE IF ~got.found
         THEN /\ response' = Response("chat", 404, "session not found",
                               Failure(<<"Session not found or expired">>), <<>>)
              /\ UNCHANGED <<sessions, chat, asked>>
         ELSE /\ Allowed(nextId, asked + 1, faults)
              /\ sessions' = appended
              /\ asked' = asked + 1
              /\ chat' = [chat EXCEPT ![c] =
                            [pc |-> "respond", sessionId |-> sessionId,
                             message |-> message,
                             prompt |->
                               [analysis |-> sessions[sessionId].analysis,
                                webInfo |-> webInfoOrEmpty(sessions[sessionId].webInfo),
                                question |-> message,
                                history |-> appended[sessionId].conversationHistory]]]
              /\ response' = NoResponse
  /\ UNCHANGED <<now, nextSweep, nextId, run, faults, limits, replyText, coerced>>

\* aiResponse.suggestedQuestions || []
suggestedOrEmpty(v) == IF v = "undefined" THEN "empty" ELSE v

\* Respond returns; the handler appends the answer and replies
\* ChatReturn putting the session it holds back into the store when the
\* store has lost it, where the code appends only to a session it finds
ChatReturnRestore(c, reply) ==
  /\ chat[c].pc = "respond"
  /\ Allowed(nextId, asked, faults + FaultsOf(reply, "{answer}"))
  /\ LET result == handleFollowUp(reply)
         id == chat[c].sessionId
         held == [analysis |-> chat[c].prompt.analysis,
                  webInfo |-> chat[c].prompt.webInfo,
                  formattedData |-> Unset,
                  conversationHistory |-> chat[c].prompt.history,
                  createdAt |-> now, lastAccessed |-> now]
     IN  IF ~result.success
         THEN /\ response' = Response("chat", 500, "respond failed",
                               Failure(<<"Failed to process follow-up question">>),
                               <<"Respond">>)
              /\ UNCHANGED sessions
         ELSE IF result.response = JsonNull
         THEN /\ response' = Response("chat", 500, "handler error",
                               Failure(<<"Failed to process message">>),
                               <<"Respond">>)
              /\ UNCHANGED sessions
         ELSE /\ sessions' =
                   addToConversationHistory(
                     IF id \in DOMAIN sessions THEN sessions
                     ELSE MapSet(sessions, id, held),
                     id, "assistant", result.response.answer, now)
              /\ response' = Response("chat", 200, "ok",
                               [response |-> result.response.answer,
                                suggestedQuestions |->
                                   suggestedOrEmpty(result.response.suggestedQuestions)],
                               <<"Respond">>)
  /\ chat' = [chat EXCEPT ![c] = IdleChat]
  /\ faults' = faults + FaultsOf(reply, "{answer}")
  /\ UNCHANGED <<now, nextSweep, nextId, run, asked, limits, replyText, coerced>>

\* ChatReturn writing the history back from what the request read before the
\* await, where the code appends to the history as the store has it
ChatReturnStale(c, reply) ==
  /\ chat[c].pc = "respond"
  /\ Allowed(nextId, asked, faults + FaultsOf(reply, "{answer}"))
  /\ LET result == handleFollowUp(reply)
         id == chat[c].sessionId
     IN  IF ~result.success
         THEN /\ response' = Response("chat", 500, "respond failed",
                               Failure(<<"Failed to process follow-up question">>),
                               <<"Respond">>)
              /\ UNCHANGED sessions
         ELSE IF result.response = JsonNull
         THEN /\ response' = Response("chat", 500, "handler error",
                               Failure(<<"Failed to process message">>),
                               <<"Respond">>)
              /\ UNCHANGED sessions
         ELSE /\ sessions' =
                   IF id \notin DOMAIN sessions THEN sessions
                   ELSE addToConversationHistory(
                          MapSet(sessions, id,
                                 [sessions[id] EXCEPT
                                    !.conversationHistory = chat[c].prompt.history]),
                          id, "assistant", result.response.answer, now)
              /\ response' = Response("chat", 200, "ok",
                               [response |-> result.response.answer,
                                suggestedQuestions |->
                                   suggestedOrEmpty(result.response.suggestedQuestions)],
                               <<"Respond">>)
  /\ chat' = [chat EXCEPT ![c] = IdleChat]
  /\ faults' = faults + FaultsOf(reply, "{answer}")
  /\ UNCHANGED <<now, nextSweep, nextId, run, asked, limits, replyText, coerced>>

ChatReturn(c, reply) ==
  /\ chat[c].pc = "respond"
  /\ Allowed(nextId, asked, faults + FaultsOf(reply, "{answer}"))
  /\ LET result == handleFollowUp(reply)
     IN  IF ~result.success
         THEN /\ response' = Response("chat", 500, "respond failed",
                               Failure(<<"Failed to process follow-up question">>),
                               <<"Respond">>)
              /\ UNCHANGED sessions
         ELSE IF result.response = JsonNull
         THEN \* reading aiResponse.answer throws; the route's catch replies
              /\ response' = Response("chat", 500, "handler error",
                               Failure(<<"Failed to process message">>),
                               <<"Respond">>)
              /\ UNCHANGED sessions
         ELSE /\ sessions' = addToConversationHistory(sessions, chat[c].sessionId,
                                "assistant", result.response.answer, now)
              /\ response' = Response("chat", 200, "ok",
                               [response |-> result.response.answer,
                                suggestedQuestions |->
                                   suggestedOrEmpty(result.response.suggestedQuestions)],
                               <<"Respond">>)
  /\ chat' = [chat EXCEPT ![c] = IdleChat]
  /\ faults' = faults + FaultsOf(reply, "{answer}")
  /\ UNCHANGED <<now, nextSweep, nextId, run, asked, limits, replyText, coerced>>

-----------------------------------------------------------------------------
(* The routes that do not await *)

\* GET /api/session/:sessionId
SessionInfo(sessionId) ==
  /\ LET got == getAnalysis(sessions, sessionId, now)
     IN  IF ~got.found
         THEN /\ response' = Response("session", 404, "session not found",
                               Failure(<<"Session not found or expired">>), <<>>)
              /\ UNCHANGED sessions
         ELSE /\ sessions' = got.store
              /\ response' = Response("session", 200, "ok",
                               [hasAnalysis |-> TRUE,
                                hasWebInfo |-> sessions[sessionId].webInfo # JsonNull,
                                messageCount |-> Len(sessions[sessionId].conversationHistory),
                                productName |-> orElse(sessions[sessionId].analysis.productName,
                                                       <<"Unknown">>)],
                               <<>>)
  /\ UNCHANGED <<now, nextSweep, nextId, run, chat, asked, faults, limits, replyText, coerced>>

\* DELETE /api/session/:sessionId: the server file does not import
\* deleteSession, so the handler throws a ReferenceError and the error
\* middleware replies
DeleteSessionRoute(sessionId) ==
  /\ response' = Response("delete", 500, "internal server error",
                 Failure(<<"Internal server error">>), <<>>)
  /\ UNCHANGED <<sessions, now, nextSweep, nextId, run, chat, asked, faults, limits,
               replyText, coerced>>

\* GET /api/health
Health ==
  /\ response' = Response("health", 200, "ok", getSessionStats(sessions), <<>>)
  /\ UNCHANGED <<sessions, now, nextSweep, nextId, run, chat, asked, faults, limits,
               replyText, coerced>>

-----------------------------------------------------------------------------
(* The clock and the sweep's timer *)

\* time passes, but not past a sweep that is due
Tick ==
  /\ now < nextSweep
  /\ now + SWEEP_INTERVAL <= limits.time
  /\ now' = now + SWEEP_INTERVAL
  /\ response' = NoResponse
  /\ UNCHANGED <<sessions, nextSweep, nextId, run, chat, asked, faults, limits, replyText, coerced>>

\* the setInterval callback
Sweep ==
  /\ now >= nextSweep
  /\ sessions' = sweep(sessions, now)
  /\ nextSweep' = now + SWEEP_INTERVAL
  /\ response' = NoResponse
  /\ UNCHANGED <<now, nextId, run, chat, asked, faults, limits, replyText, coerced>>

-----------------------------------------------------------------------------

Next ==
  \/ \E file \in {"none", "empty", "image"} : AnalyzeStart(file)
  \/ \E reply \in ExtractReplies : ExtractReturn(reply)
  \/ \E reply \in EnrichReplies : EnrichReturn(reply)
  \/ \E reply \in SummarizeReplies : SummarizeReturn(reply)
  \/ \E c \in ChatRequests, id \in SessionIdHeaders :
       \E message \in Messages(asked + 1) : ChatStart(c, id, message)
  \/ \E c \in ChatRequests, reply \in RespondReplies : ChatReturn(c, reply)
  \/ \E id \in SessionIds : SessionInfo(id)
  \/ \E id \in SessionIds : DeleteSessionRoute(id)
  \/ Health
  \/ Tick
  \/ Sweep

-----------------------------------------------------------------------------
(* The environments the server is checked in.  Each one bounds what the     *)
(* clients, the capability and the clock do; the server's actions are the   *)
(* same in all of them.                                                     *)

\* the server at large, for as long as the sweep's timer fires once
Init == InitWith(MaxEvents, MaxEvents, Cardinality(SessionIds), SWEEP_INTERVAL)

Spec == Init /\ [][Next]_vars

\* one session and one long conversation, the capability never at fault
InitLong == InitWith(LongAsks + 1, 0, 1, SWEEP_INTERVAL)

SpecLong == InitLong /\ [][Next]_vars

\* one session and one chat request, the capability never at fault, until the
\* session has expired
InitTimed == InitWith(2, 0, 1, TimedSweeps * SWEEP_INTERVAL)

SpecTimed == InitTimed /\ [][Next]_vars

\* a stage cleans up and parses the reply it has got: lines 216-225 of
\* analyzeImage, the same in searchProductInfo, generateFormattedSummary and
\* handleFollowUp
CoerceReply ==
  /\ coerced = NotCoerced
  /\ coerced' = JSONparse(stripFence(replyText))
  /\ UNCHANGED <<sessions, now, nextSweep, nextId, run, chat, response, asked,
                 faults, limits, replyText>>

\* what a reply can hold between its fences: a document, white space, a word
BodyTokens == {"{answer}", " ", "\n", "It"}

RECURSIVE BodiesOf(_)
BodiesOf(n) ==
  IF n = 0 THEN {<< >>}
  ELSE LET shorter == BodiesOf(n - 1)
       IN  shorter \cup {Append(b, t) : b \in shorter, t \in BodyTokens}

Bodies == BodiesOf(MaxBody)

\* the opening fence of a markdown code block: bare, tagged json, tagged
\* with another language
Openings == {<<Fence, "\n">>, <<Fence, "json", "\n">>, <<Fence, "javascript", "\n">>}

\* a reply is a body, bare or between an opening and the closing fence
ReplyTexts ==
  Bodies \cup {open \o body \o <<"\n", Fence>> : open \in Openings, body \in Bodies}

\* one stage with one reply in hand, any of the reply texts
InitCoerce ==
  /\ ServerStarted(0, 0, 0, 0)
  /\ replyText \in ReplyTexts
  /\ coerced = NotCoerced

SpecCoerce == InitCoerce /\ [][CoerceReply]_vars

\* two sessions of different ages or one session and one chat request, the
\* capability never at fault, until the older session has expired
InitSweep == InitWith(2, 0, Cardinality(SessionIds), TimedSweeps * SWEEP_INTERVAL)

SpecSweep == InitSweep /\ [][Next]_vars

\* one session and one chat request, the capability never at fault; the clock
\* keeps running and the interval timer keeps firing
InitFair == InitWith(2, 0, 1, FairSweeps * SWEEP_INTERVAL)

SpecFair == InitFair /\ [][Next]_vars /\ WF_vars(Tick) /\ WF_vars(Sweep)

-----------------------------------------------------------------------------
(* Properties *)

History(S, id) == S[id].conversationHistory

Entry(role, content, t) == [role |-> role, content |-> content, timestamp |-> t]

\* the stages run r has invoked
Invoked(r) == {r.invoked[i] : i \in DOMAIN r.invoked}

\* this step lets chat request c through to the Respond invocation
LetThrough(c) == chat[c].pc = "idle" /\ chat'[c].pc = "respond"

\* this step is the return of chat request c's Respond invocation
Returned(c) == chat[c].pc = "respond" /\ chat'[c].pc = "idle"

\* this step ends the analysis run after its Summarize invocation
RunEnded == run.pc = "summarize" /\ run'.pc = "idle"

\* this step's response hands a session created by this step to the caller
SessionReturned ==
  /\ response'.route = "analyze"
  /\ response'.status = 200
  /\ response'.body.sessionId \in DOMAIN sessions' \ DOMAIN sessions

\* the history an append of e to h is to leave: e at the end, and of the
\* entries of h all if they are fewer than the cap, else all but the oldest
FifoAppend(h, e) ==
  IF Len(h) < HISTORY_LIMIT THEN Append(h, e)
  ELSE SubSeq(h, Len(h) - HISTORY_LIMIT + 2, Len(h)) \o <<e>>

\* C1: in every reachable state, every stored session's history has at most
\* 10 entries, interleaved asks against the same session included.
C1_HistoryBounded ==
  \A id \in DOMAIN sessions : Len(History(sessions, id)) <= HISTORY_LIMIT

\* a full history that has lost its oldest entry while two asks against the
\* session were in progress, one of them still waiting for its answer
C1_FullAfterInterleavedAsks ==
  \E id \in DOMAIN sessions :
    LET h == History(sessions, id)
    IN  /\ Len(h) = HISTORY_LIMIT
        /\ h[1].role = "assistant"
        /\ h[HISTORY_LIMIT - 2].role = "user"
        /\ h[HISTORY_LIMIT - 1].role = "user"
        /\ h[HISTORY_LIMIT].role = "assistant"
        /\ \E c \in ChatRequests : chat[c].pc = "respond" /\ chat[c].sessionId = id

\* C2: an append to an existing session's history that holds 10 entries
\* leaves the 9 most recent of them followed by the new entry, in their
\* order; an append to a shorter history adds the new entry at the end and
\* evicts nothing.  The appends are the user's message when a chat request
\* is let through and the assistant's answer when Respond returns.
C2_FifoEviction ==
  [][\A c \in ChatRequests :
       /\ LetThrough(c) =>
            LET id == chat'[c].sessionId
            IN  History(sessions', id) =
                  FifoAppend(History(sessions, id),
                             Entry("user", chat'[c].message, now))
       /\ (Returned(c) /\ response'.status = 200
             /\ chat[c].sessionId \in DOMAIN sessions) =>
            LET id == chat[c].sessionId
            IN  History(sessions', id) =
                  FifoAppend(History(sessions, id),
                             Entry("assistant", response'.body.response, now))]_vars

\* the sixth message has just been appended to a full history, whose oldest
\* entry, the first message, is gone
C2_OldestEvicted ==
  \E id \in DOMAIN sessions :
    LET h == History(sessions, id)
    IN  /\ Len(h) = HISTORY_LIMIT
        /\ h[1].role = "assistant"
        /\ h[HISTORY_LIMIT] = Entry("user", Question(6), now)

\* C3: in every reachable state, every session in the store has its three
\* artifacts, extraction, enrichment and summary, present: degraded perhaps,
\* never absent or null.
C3_ArtifactsPresent ==
  \A id \in DOMAIN sessions :
    /\ sessions[id].analysis \notin {Unset, JsonNull}
    /\ sessions[id].webInfo \notin {Unset, JsonNull}
    /\ sessions[id].formattedData \notin {Unset, JsonNull}

\* C4: get(id) returns absent whenever id was never created, or was deleted,
\* or more than the 30 minutes of the time-to-live have passed since the
\* session's last access, whether or not a sweep has run since.
C4_GetAbsentPastTtl ==
  \A id \in SessionIds :
    (id \notin DOMAIN sessions \/ expired(sessions[id], now)) =>
      ~getAnalysis(sessions, id, now).found

\* the decoded reply of Extract has the error sentinel set
Sentinel(reply) ==
  LET parsed == JSONparse(stripFence(reply.content))
  IN  /\ ~reply.throws
      /\ parsed.ok
      /\ parsed.value # JsonNull
      /\ (parsed.value.isError \/ truthy(parsed.value.error))

\* C5: when the decoded reply of Extract has the error sentinel set (isError
\* true or a non-empty error), the run answers with a terminal error, invokes
\* neither Enrich nor Summarize, and leaves the store unchanged.
C5_SentinelTerminal ==
  [][\A reply \in ExtractReplies :
       (Sentinel(reply) /\ ExtractReturn(reply)) =>
          /\ response'.route = "analyze"
          /\ response'.status = 500
          /\ response'.invoked = <<"Extract">>
          /\ run' = IdleRun
          /\ sessions' = sessions]_vars

\* a run has ended on a sentinel that carried no message of its own
C5_SentinelAnswered ==
  /\ response.route = "analyze"
  /\ response.status = 500
  /\ response.body = Failure(<<"Failed to analyze the food label">>)
  /\ response.invoked = <<"Extract">>

\* the Enrich invocation fails: it throws, or its reply does not parse
EnrichFails(reply) == reply.throws \/ ~JSONparse(stripFence(reply.content)).ok

C7_SummarizeNeverFails ==
  [][/\ run.pc = "enrich" => run'.pc = "summarize" /\ response' = NoResponse
     /\ RunEnded => SessionReturned]_vars

\* C8: an ask on an existing session with a non-blank message whose Respond
\* stage succeeds returns a non-empty answer, and the assistant's entry with
\* that answer follows the user's entry in the session's history.
C8_AskAnswered ==
  [][\A c \in ChatRequests, reply \in RespondReplies :
       (handleFollowUp(reply).success /\ chat[c].sessionId \in DOMAIN sessions
          /\ ChatReturn(c, reply)) =>
          /\ response'.route = "chat"
          /\ response'.status = 200
          /\ truthy(response'.body.response)
          /\ History(sessions', chat[c].sessionId) =
               FifoAppend(History(sessions, chat[c].sessionId),
                          Entry("assistant", response'.body.response, now))]_vars

\* C9: an ask for an id that is not in the store answers session-not-found,
\* never the validation error, whatever the message; it invokes no
\* capability and leaves the store unchanged.
C9_UnknownIdNotFound ==
  [][\A c \in ChatRequests, id \in SessionIds :
       \A message \in Messages(asked + 1) :
         (id \notin DOMAIN sessions /\ ChatStart(c, id, message)) =>
            /\ response'.route = "chat"
            /\ response'.status = 404
            /\ response'.kind = "session not found"
            /\ response'.invoked = <<>>
            /\ chat' = chat
            /\ sessions' = sessions]_vars

\* an ask has been answered session-not-found while the store held a session
C9_NotFoundAnswered ==
  /\ response.route = "chat"
  /\ response.kind = "session not found"
  /\ DOMAIN sessions # {}

\* an empty or whitespace-only message
Blank(message) == message # UNDEFINED /\ \A i \in DOMAIN message : message[i] \in Whitespace

\* C10: an ask on a stored session with an empty or whitespace-only message
\* answers the validation error before any capability is invoked and leaves
\* the session's history unchanged.
C10_BlankRejected ==
  [][\A c \in ChatRequests, id \in SessionIds :
       \A message \in Messages(asked + 1) :
         (id \in DOMAIN sessions /\ Blank(message) /\ ChatStart(c, id, message)) =>
            /\ response'.route = "chat"
            /\ response'.status = 400
            /\ response'.kind = "message required"
            /\ response'.invoked = <<>>
            /\ chat' = chat
            /\ sessions' = sessions]_vars

\* a blank message has been rejected on a session with a conversation under way
C10_RejectedAnswered ==
  /\ response.route = "chat"
  /\ response.kind = "message required"
  /\ \E id \in DOMAIN sessions : History(sessions, id) # <<>>

\* the last entry of history h has this role
EndsWith(h, role) == h # <<>> /\ h[Len(h)].role = role

\* C11: the user's message is in the history before Respond is invoked (the
\* history handed to Respond ends with it), the assistant's entry is appended
\* only by the return of a successful Respond, and when the Respond
\* invocation throws the ask answers a hard error with no answer and leaves
\* the store as it was, the user's entry appended and no assistant's.
C11_UserBeforeAssistantAfter ==
  [][/\ \A c \in ChatRequests :
          LetThrough(c) =>
             /\ EndsWith(History(sessions', chat'[c].sessionId), "user")
             /\ chat'[c].prompt.history = History(sessions', chat'[c].sessionId)
             /\ chat'[c].prompt.history[Len(chat'[c].prompt.history)].content
                  = chat'[c].message
     /\ \A c \in ChatRequests :
          ChatReturn(c, Throw) =>
             /\ response'.route = "chat"
             /\ response'.status = 500
             /\ response'.body = Failure(<<"Failed to process follow-up question">>)
             /\ sessions' = sessions
     /\ \A id \in DOMAIN sessions \cap DOMAIN sessions' :
          (History(sessions', id) # History(sessions, id)
             /\ EndsWith(History(sessions', id), "assistant")) =>
             \E c \in ChatRequests :
               /\ Returned(c)
               /\ chat[c].sessionId = id
               /\ response'.status = 200]_vars

\* an ask has failed hard on a session whose history holds the question alone
C11_HardFailureAfterUserEntry ==
  /\ response.route = "chat"
  /\ response.kind = "respond failed"
  /\ \E id \in DOMAIN sessions :
       History(sessions, id) = <<Entry("user", Question(1), now)>>

\* C12: when Respond returns text that does not parse, the ask succeeds with
\* the capability's text verbatim as the answer and the fixed generic
\* suggested questions, and that text is the assistant entry appended.
C12_RawTextVerbatim ==
  [][\A c \in ChatRequests, reply \in RespondReplies :
       (/\ ~reply.throws
        /\ ~JSONparse(stripFence(reply.content)).ok
        /\ chat[c].sessionId \in DOMAIN sessions
        /\ ChatReturn(c, reply)) =>
          /\ response'.route = "chat"
          /\ response'.status = 200
          /\ response'.body.response = reply.content
          /\ response'.body.suggestedQuestions = "generic"
          /\ History(sessions', chat[c].sessionId) =
               FifoAppend(History(sessions, chat[c].sessionId),
                          Entry("assistant", reply.content, now))]_vars

\* what the claim has appendHistory(id, role, content) do to store S at time t
AppendFrame(S, id, role, content, t) ==
  LET T == addToConversationHistory(S, id, role, content, t)
  IN  IF id \notin DOMAIN S
      THEN ~addToConversationHistoryReturns(S, id) /\ T = S
      ELSE /\ addToConversationHistoryReturns(S, id)
           /\ DOMAIN T = DOMAIN S
           /\ \A k \in DOMAIN S \ {id} : T[k] = S[k]
           /\ T[id] = [S[id] EXCEPT
                         !.conversationHistory =
                            FifoAppend(@, Entry(role, content, t)),
                         !.lastAccessed = t]

\* C13: in every reachable store, appendHistory for an id not in the store
\* returns absent and leaves the store as it is; for an id in the store it
\* appends one entry and sets that session's lastAccessed to the current
\* time, and changes nothing else of that session or of any other.
C13_AppendFrame ==
  \A id \in SessionIds, role \in {"user", "assistant"} :
    AppendFrame(sessions, id, role, Question(1), now)

\* a later append to one of two sessions: it alone has the entry and the new
\* lastAccessed, while a request on it awaits Respond
C13_AppendedToOneOfTwo ==
  \E id, other \in DOMAIN sessions :
    /\ id # other
    /\ now > 0
    /\ History(sessions, id) = <<Entry("user", Question(1), now)>>
    /\ sessions[id].lastAccessed = now
    /\ sessions[other].lastAccessed = 0
    /\ History(sessions, other) = <<>>

\* C14: expiry is sliding.  Every successful get (the session-summary read,
\* the get of an ask) sets the session's lastAccessed to the current time;
\* lastAccessed never goes back; and a session is removed only when more
\* than 30 minutes have passed since its lastAccessed, however long ago it
\* was created.
C14_SlidingExpiry ==
  [][/\ \A id \in DOMAIN sessions :
          SessionInfo(id) => sessions'[id].lastAccessed = now
     /\ \A c \in ChatRequests :
          LetThrough(c) => sessions'[chat'[c].sessionId].lastAccessed = now
     /\ \A id \in DOMAIN sessions \cap DOMAIN sessions' :
          sessions'[id].lastAccessed >= sessions[id].lastAccessed
     /\ \A id \in DOMAIN sessions \ DOMAIN sessions' :
          now - sessions[id].lastAccessed > SESSION_TIMEOUT]_vars

\* a session older than the time-to-live that a sweep has just passed over,
\* because it was accessed in the meantime
C14_OldSessionSurvivesSweep ==
  \E id \in DOMAIN sessions :
    /\ now - sessions[id].createdAt > SESSION_TIMEOUT
    /\ sessions[id].lastAccessed > sessions[id].createdAt
    /\ nextSweep > now

\* C15: one run of the sweep removes exactly the sessions whose lastAccessed
\* is more than 30 minutes before the current time and leaves every other
\* session as it was; and a session leaves the store only in a run of the
\* sweep or in a deletion request.
C15_SweepFrame ==
  [][/\ Sweep =>
          /\ DOMAIN sessions' =
               {id \in DOMAIN sessions :
                  ~(now - sessions[id].lastAccessed > SESSION_TIMEOUT)}
          /\ \A id \in DOMAIN sessions' : sessions'[id] = sessions[id]
     /\ DOMAIN sessions \ DOMAIN sessions' # {} =>
          \/ Sweep
          \/ \E id \in SessionIds : DeleteSessionRoute(id)]_vars

\* a sweep has just removed the older of two sessions and kept the younger,
\* itself at the time-to-live
C15_SweptOneOfTwo ==
  /\ nextId = 3
  /\ DOMAIN sessions = {2}
  /\ nextSweep = now + SWEEP_INTERVAL
  /\ now - sessions[2].lastAccessed = SESSION_TIMEOUT

\* C16: with the clock running and the sweep's timer firing, a session that
\* is not accessed again is eventually removed (for every last access from
\* which the clock runs long enough); it is never in the store more than 30
\* minutes and one sweep interval after its last access, and past the 30
\* minutes only while the sweep that removes it is due.
C16_EventuallyRemoved ==
  /\ [](\A id \in DOMAIN sessions :
          /\ now - sessions[id].lastAccessed <= SESSION_TIMEOUT + SWEEP_INTERVAL
          /\ now - sessions[id].lastAccessed > SESSION_TIMEOUT => now >= nextSweep)
  /\ \A id \in SessionIds,
        k \in 0..(FairSweeps - (SESSION_TIMEOUT \div SWEEP_INTERVAL + 1)) :
       (/\ id \in DOMAIN sessions
        /\ sessions[id].lastAccessed = k * SWEEP_INTERVAL
        /\ k * SWEEP_INTERVAL + SESSION_TIMEOUT + SWEEP_INTERVAL <= limits.time)
         ~> (\/ id \notin DOMAIN sessions
             \/ sessions[id].lastAccessed > k * SWEEP_INTERVAL)

\* the one session has been removed by a sweep, 35 minutes or more after it
\* was stored, and the clock has not run out
C16_RemovedAfterLastAccess ==
  /\ nextId = 2
  /\ sessions = << >>
  /\ now >= SESSION_TIMEOUT + SWEEP_INTERVAL
  /\ nextSweep > now
  /\ now < limits.time

\* C17: a deletion request for an id in the store reports the deletion and
\* leaves the store without that session, so that later requests on the id
\* find it absent; for an id not in the store it reports no deletion; either
\* way every other session is as it was.
C17_DeleteDestroys ==
  [][\A id \in SessionIds :
       DeleteSessionRoute(id) =>
          /\ sessions' = deleteSession(sessions, id)
          /\ id \notin DOMAIN sessions'
          /\ id \in DOMAIN sessions => response'.status = 200
          /\ id \notin DOMAIN sessions => response'.kind # "deleted"]_vars

\* C18: every operation on a session in the store sets its lastAccessed to
\* the current time: the session-summary read, an ask that has passed the
\* existence check (whatever becomes of it), any append to the history, and
\* the health read, which reads every session.
C18_EveryTouchRefreshes ==
  [][\A id \in DOMAIN sessions \cap DOMAIN sessions' :
       (\/ SessionInfo(id)
        \/ History(sessions', id) # History(sessions, id)
        \/ \E c \in ChatRequests, message \in Messages(asked + 1) :
             ChatStart(c, id, message)
        \/ Health) => sessions'[id].lastAccessed = now]_vars

\* C19: while a session is in the store its extraction, enrichment, summary
\* and creation time stay as stored under its id; a step changes of it at
\* most the history, by one append with eviction from the front, and
\* lastAccessed, to the current time; and storing a session leaves the ones
\* already there as they are.
C19_ArtifactsFrozen ==
  [][\A id \in DOMAIN sessions \cap DOMAIN sessions' :
       /\ sessions'[id].analysis = sessions[id].analysis
       /\ sessions'[id].webInfo = sessions[id].webInfo
       /\ sessions'[id].formattedData = sessions[id].formattedData
       /\ sessions'[id].createdAt = sessions[id].createdAt
       /\ DOMAIN sessions'[id] = DOMAIN sessions[id]
       /\ sessions'[id].lastAccessed \in {sessions[id].lastAccessed, now}
       /\ \/ History(sessions', id) = History(sessions, id)
          \/ \E role \in {"user", "assistant"} :
               /\ Len(History(sessions', id)) > 0
               /\ History(sessions', id) =
                    FifoAppend(History(sessions, id),
                               Entry(role,
                                     History(sessions', id)
                                       [Len(History(sessions', id))].content,
                                     now))]_vars

\* a session that was read and asked about after it was stored, its history
\* holding one exchange
C19_SessionAfterExchange ==
  \E id \in DOMAIN sessions :
    /\ sessions[id].createdAt < sessions[id].lastAccessed
    /\ Len(History(sessions, id)) = 2
    /\ History(sessions, id)[2].role = "assistant"
    /\ response.route = "chat"
    /\ response.status = 200

\* C20: when the session of an ask has left the store while the ask awaited
\* Respond, the ask does not end as a successful exchange: its reply is not
\* a 200 with an answer.
C20_InFlightSeesAbsent ==
  [][\A c \in ChatRequests :
       (/\ Returned(c)
        /\ chat[c].sessionId \notin DOMAIN sessions) =>
          /\ response'.route = "chat"
          /\ response'.status # 200]_vars

\* history h with its oldest entry dropped when it is full
Kept(h) == IF Len(h) < HISTORY_LIMIT THEN h ELSE Tail(h)

\* C21: no append is lost, asks on the same session interleaving or not.  A
\* step that changes a stored session's history leaves every entry it held,
\* in order, but the oldest of a full one, and adds one entry at the end:
\* the message of the request let through or the answer of the request that
\* returned.
C21_NoAppendLost ==
  [][\A id \in DOMAIN sessions \cap DOMAIN sessions' :
       LET h == History(sessions, id)
           g == History(sessions', id)
       IN  g # h =>
             /\ Len(g) = Len(Kept(h)) + 1
             /\ SubSeq(g, 1, Len(g) - 1) = Kept(h)
             /\ \E c \in ChatRequests :
                  \/ /\ LetThrough(c)
                     /\ chat'[c].sessionId = id
                     /\ g[Len(g)] = Entry("user", chat'[c].message, now)
                  \/ /\ Returned(c)
                     /\ chat[c].sessionId = id
                     /\ g[Len(g)] = Entry("assistant", response'.body.response, now)]_vars

\* two asks on one session have interleaved and both are answered: the
\* history holds the two questions and then the two answers
C21_InterleavedAsksKept ==
  \E id \in DOMAIN sessions :
    LET h == History(sessions, id)
    IN  /\ Len(h) = 4
        /\ h[1] = Entry("user", Question(1), now)
        /\ h[2] = Entry("user", Question(2), now)
        /\ h[3].role = "assistant"
        /\ h[4].role = "assistant"
        /\ \A c \in ChatRequests : chat[c].pc = "idle"

\* the stages a run can have invoked, in the order it invoked them
StageOrders ==
  {<< >>, <<"Extract">>, <<"Extract", "Enrich">>,
   <<"Extract", "Enrich", "Summarize">>, <<"Extract", "Summarize">>}

\* C22: a run's stages go in the order Extract, Enrich, Summarize, commit.
\* A run is in one stage at a time and has invoked them in that order; it
\* comes to await Enrich only from Extract, with an analysis that is no
\* sentinel; it comes to await Summarize only from Enrich, or from Extract
\* when Enrich came back degraded without an invocation; and a session is
\* stored only by the step in which Summarize returns.
C22_StagesInOrder ==
  /\ [](/\ run.pc \in {"idle", "extract", "enrich", "summarize"}
        /\ run.invoked \in StageOrders
        /\ run.pc = "idle" <=> run.invoked = << >>
        /\ run.pc # "idle" =>
             run.invoked[Len(run.invoked)] =
               CASE run.pc = "extract" -> "Extract"
                 [] run.pc = "enrich" -> "Enrich"
                 [] run.pc = "summarize" -> "Summarize")
  /\ [][/\ run'.pc = "extract" /\ run.pc # "extract" => run.pc = "idle"
        /\ run'.pc = "enrich" /\ run.pc # "enrich" =>
             /\ run.pc = "extract"
             /\ run'.analysis.type = "object"
             /\ ~run'.analysis.isError /\ ~truthy(run'.analysis.error)
        /\ run'.pc = "summarize" /\ run.pc # "summarize" =>
             \/ run.pc = "enrich"
             \/ /\ run.pc = "extract"
                /\ ~run'.webSearchResult.success
                /\ run'.webInfo = RouteDegradedWebInfo
        /\ DOMAIN sessions' \ DOMAIN sessions # {} =>
             /\ run.pc = "summarize"
             /\ run'.pc = "idle"
             /\ response'.invoked[Len(response'.invoked)] = "Summarize"]_vars

\* a run has gone through its three stages and stored its session
C22_ThreeStagesThenCommit ==
  /\ response.route = "analyze"
  /\ response.status = 200
  /\ response.invoked = <<"Extract", "Enrich", "Summarize">>
  /\ response.body.sessionId \in DOMAIN sessions
  /\ run.pc = "idle"

\* how many times the sequence of invocations holds the stage
Invocations(invoked, stage) ==
  Cardinality({i \in DOMAIN invoked : invoked[i] = stage})

\* C23: no stage is retried.  A request invokes each of its stages once: a
\* run never invokes a stage twice and leaves a stage when its invocation
\* returns, an ask invokes Respond once and ends when it returns.  A failed
\* Extract ends the run with a hard error, a failed Enrich leaves the fixed
\* degraded enrichment and the run goes on, a Summarize or a Respond that
\* returns ends the request with its answer or with a hard error.
C23_NoRetry ==
  /\ [](\A stage \in {"Extract", "Enrich", "Summarize", "Respond"} :
          /\ Invocations(run.invoked, stage) <= 1
          /\ Invocations(response.invoked, stage) <= 1)
  /\ [][/\ run' # run /\ run.pc # "idle" => run'.pc # run.pc
        /\ run.pc = "extract" /\ run'.pc = "idle" =>
             /\ response'.status = 500
             /\ response'.invoked = <<"Extract">>
        /\ run.pc = "enrich" /\ run' # run =>
             /\ run'.pc = "summarize"
             /\ ~run'.webSearchResult.success =>
                  run'.webInfo = RouteDegradedWebInfo
        /\ run.pc = "summarize" /\ run' # run =>
             /\ run'.pc = "idle"
             /\ response'.status \in {200, 500}
             /\ Invocations(response'.invoked, "Extract") = 1
             /\ Invocations(response'.invoked, "Summarize") = 1
        /\ \A c \in ChatRequests :
             chat[c].pc = "respond" /\ chat'[c] # chat[c] =>
               /\ chat'[c].pc = "idle"
               /\ response'.status \in {200, 500}
               /\ response'.invoked = <<"Respond">>]_vars

\* the Extract invocation of a second run has thrown and the run has ended
\* with the hard error, one invocation made, after a first run that stored
\* its session
C23_FailedOnceAndEnded ==
  /\ response.route = "analyze"
  /\ response.status = 500
  /\ response.kind = "extraction failed"
  /\ response.invoked = <<"Extract">>
  /\ response.body = Failure(<<"Failed to analyze image">>)
  /\ run.pc = "idle"
  /\ faults = 1
  /\ nextId = 2

\* C24: when an ask is let through to Respond, the history handed to the
\* stage is the session's history as the store has it at that moment, every
\* entry in order, and the analysis and the enrichment handed to it are the
\* ones stored in the session.
C24_FullHistoryPassed ==
  [][\A c \in ChatRequests :
       LetThrough(c) =>
          LET id == chat'[c].sessionId
              prompt == chat'[c].prompt
          IN  /\ prompt.history = History(sessions', id)
              /\ Len(prompt.history) <= HISTORY_LIMIT
              /\ prompt.question = chat'[c].message
              /\ prompt.analysis = sessions'[id].analysis
              /\ prompt.webInfo = sessions'[id].webInfo]_vars

\* C25: for every reply body that decodes as JSON, the stage that has
\* coerced the body wrapped in a json code fence holds the parsed value that
\* coercing the bare body gives, which is the value of parsing the body.
C25_FencedSameAsBare ==
  \A body \in Bodies :
    (/\ JSONparse(body).ok
     /\ replyText = Fenced(body)
     /\ coerced # NotCoerced) =>
       /\ coerced = JSONparse(stripFence(body))
       /\ coerced = JSONparse(body)

\* a document with white space around it, in a json fence, has been coerced
\* to the document's value
C25_FencedDocumentParsed ==
  /\ replyText = Fenced(<<"\n", "{answer}", " ">>)
  /\ coerced = [ok |-> TRUE, value |-> JsonValue("{answer}")]

\* what the claim has the coercion step make of a fenced reply: the value of
\* its body, whatever the opening fence's tag
StrippedOfAnyFence(text, value) ==
  \A open \in Openings, body \in Bodies :
    text = open \o body \o <<"\n", Fence>> => value = JSONparse(body)

\* C26: the coercion step strips the leading and the trailing fence of a
\* reply, the opening fence carrying no tag, the tag json or another tag, so
\* that what it parses is the body and its result is that of the bare body.
C26_AnyFenceStripped ==
  coerced # NotCoerced => StrippedOfAnyFence(replyText, coerced)

\* C27: while an ask awaits Respond, the history the stage was handed ends
\* with a user entry holding that ask's own message, which is also the
\* question it was handed, whatever other asks are in flight on the session.
C27_PromptEndsWithOwnQuestion ==
  \A c \in ChatRequests :
    chat[c].pc = "respond" =>
      LET prompt == chat[c].prompt
      IN  /\ prompt.history # << >>
          /\ prompt.history[Len(prompt.history)].role = "user"
          /\ prompt.history[Len(prompt.history)].content = chat[c].message
          /\ prompt.question = chat[c].message

\* two asks await Respond on one session: the second was handed both
\* questions, its own the last
C27_SecondAskInFlight ==
  \E c, d \in ChatRequests :
    /\ c # d
    /\ chat[c].pc = "respond" /\ chat[d].pc = "respond"
    /\ chat[c].sessionId = chat[d].sessionId
    /\ Len(chat[c].prompt.history) = 1
    /\ Len(chat[d].prompt.history) = 2
    /\ chat[d].prompt.history[1].content = chat[c].message
    /\ chat[d].prompt.history[2].content = chat[d].message
    /\ chat[c].message # chat[d].message

\* C28: a session that has left the store does not come back.  An id enters
\* the store only as the fresh id of the run that stores it; and a request
\* in flight on a session that is gone leaves the store as it is when its
\* Respond returns.
C28_NoReinsertion ==
  [][/\ \A id \in DOMAIN sessions' \ DOMAIN sessions :
          /\ id = nextId
          /\ nextId' = nextId + 1
          /\ RunEnded
     /\ \A id \in 1..(nextId - 1) :
          id \notin DOMAIN sessions => id \notin DOMAIN sessions'
     /\ \A c \in ChatRequests :
          (Returned(c) /\ chat[c].sessionId \notin DOMAIN sessions) =>
             sessions' = sessions]_vars

\* the ask that was in flight when the sweep removed its session has
\* returned with an answer, and the store is still empty
C28_ReturnedAfterRemoval ==
  /\ nextId = 2
  /\ sessions = << >>
  /\ response.route = "chat"
  /\ response.status = 200
  /\ asked = 1
  /\ \A c \in ChatRequests : chat[c].pc = "idle"

====
